---- MODULE Spec2Model ----
(***************************************************************************)
(* Model of the Python-facing FTRL object py::Ftrl (c/models/py_ftrl.cc)   *)
(* together with the dt::Ftrl<T> engine it drives through `dtft`.          *)
(*                                                                         *)
(* Real-valued hyperparameters are modelled as integers; only their sign   *)
(* and identity matter to the binding code.  A Python value that may be    *)
(* None/undefined is a sequence of length 0 (absent) or 1 (present).       *)
(***************************************************************************)
EXTENDS Integers, Sequences, FiniteSets, TLC

\* ------------------------------------------------------------------ bounds
MaxReal == 1
MaxLambda == 0
MaxBins == 2
MaxEpochs == 1
MaxModelCols == 4
MaxFrameCols == 1
MaxFrameRows == 1

\* the values handed to alpha and beta, to lambda1 and lambda2, to nbins and
\* to nepochs
RealInputs == -1..MaxReal
LambdaInputs == -1..MaxLambda
NbinsInputs == -1..MaxBins
NepochsInputs == -1..MaxEpochs

None == <<>>
Some(v) == <<v>>
Opt(S) == {None} \cup {Some(v) : v \in S}
IsNone(o) == o = <<>>
Val(o) == o[1]

\* ------------------------------------------------- dt::FtrlParams defaults
DefaultAlpha == 2
DefaultBeta == 1
DefaultLambda1 == 0
DefaultLambda2 == 0
DefaultNbins == 2
DefaultNepochs == 1
DefaultInteractions == FALSE
DefaultDoublePrecision == FALSE

FtrlParams ==
  [alpha |-> DefaultAlpha, beta |-> DefaultBeta, lambda1 |-> DefaultLambda1,
   lambda2 |-> DefaultLambda2, nbins |-> DefaultNbins,
   nepochs |-> DefaultNepochs, interactions |-> DefaultInteractions,
   double_precision |-> DefaultDoublePrecision]

\* --------------------------------------------------------------- the state
VARIABLES
  dtft,           \* which engine the object owns: "nullptr", "float", "double"
  labels,         \* py::Ftrl::labels, <<>> when the list handle is released
  reg_type,       \* py::Ftrl::reg_type
  params,         \* the engine's hyperparameters (dt::FtrlParams)
  model_trained,  \* dtft->is_trained()
  dt_model,       \* the engine's weight table, None when not allocated
  dt_fi,          \* the engine's feature importances, None when not allocated
  nfeatures,      \* dtft->get_dt_X_ncols()
  last            \* the call that has just ended and whether it returned
                  \* (ok) or threw; Idle once the caller has taken the outcome

vars == <<dtft, labels, reg_type, params, model_trained, dt_model, dt_fi,
          nfeatures, last>>

\* the object as one value, so that handlers can be composed
Self ==
  [dtft |-> dtft, labels |-> labels, reg_type |-> reg_type, params |-> params,
   model_trained |-> model_trained, dt_model |-> dt_model, dt_fi |-> dt_fi,
   nfeatures |-> nfeatures]

\* the outcome of a call: the object afterwards, and ok = FALSE when it threw
Return(s) == [st |-> s, ok |-> TRUE]
Throw(s) == [st |-> s, ok |-> FALSE]
Then(r, F(_)) == IF r.ok THEN F(r.st) ELSE r

Idle == [op |-> "none", ok |-> TRUE]

\* a call `op` made between two calls ends with outcome r
Commit(op, r) ==
  /\ dtft' = r.st.dtft
  /\ labels' = r.st.labels
  /\ reg_type' = r.st.reg_type
  /\ params' = r.st.params
  /\ model_trained' = r.st.model_trained
  /\ dt_model' = r.st.dt_model
  /\ dt_fi' = r.st.dt_fi
  /\ nfeatures' = r.st.nfeatures
  /\ last' = [op |-> op, ok |-> r.ok]

\* ------------------------------------------------------- argument checking
\* py::_obj::to_size_t: a negative Python int does not convert
to_size_t_ok(v) == v >= 0
\* py::Validator
check_positive(v) == v > 0
check_not_negative(v) == v >= 0

\* --------------------------------------------------------------- dt::Ftrl
\* a fresh engine of the given kind holding the given parameters
NewFtrl(s, kind, p) ==
  [s EXCEPT !.dtft = kind, !.params = p, !.model_trained = FALSE,
            !.dt_model = None, !.dt_fi = None, !.nfeatures = 0]

\* dtft->reset()
dtft_reset(s) ==
  [s EXCEPT !.model_trained = FALSE, !.dt_model = None, !.dt_fi = None,
            !.nfeatures = 0]

\* ---------------------------------------------------------------- .labels
\* set_labels without the refusal of a one-element list
set_labels_any(s, py_labels) ==
  IF Len(py_labels) = 0 THEN Return([s EXCEPT !.labels = <<"target">>])
  ELSE Return([s EXCEPT !.labels = py_labels])

set_labels(s, py_labels) ==
  LET nlabels == Len(py_labels) IN
  IF nlabels = 1 THEN Throw(s)
  ELSE IF nlabels = 0 THEN Return([s EXCEPT !.labels = <<"target">>])
  ELSE Return([s EXCEPT !.labels = py_labels])

LabelInputs == {<<>>, <<"a">>, <<"a", "b">>}

\* -------------------------------------------------------------- __init__
Bundles ==
  [alpha : RealInputs, beta : RealInputs, lambda1 : LambdaInputs,
   lambda2 : LambdaInputs, nbins : NbinsInputs, nepochs : NepochsInputs,
   interactions : BOOLEAN, double_precision : BOOLEAN]

\* every individual argument of __init__ left undefined
NoIndividual ==
  [alpha |-> None, beta |-> None, lambda1 |-> None, lambda2 |-> None,
   nbins |-> None, nepochs |-> None, interactions |-> None,
   double_precision |-> None]

Individuals ==
  [alpha : Opt(RealInputs), beta : Opt(RealInputs), lambda1 : Opt(LambdaInputs),
   lambda2 : Opt(LambdaInputs), nbins : Opt(NbinsInputs),
   nepochs : Opt(NepochsInputs), interactions : Opt(BOOLEAN),
   double_precision : Opt(BOOLEAN)]

\* the branch of __init__ taken when `params` is given
init_from_params(b, ind) ==
  IF ind # NoIndividual THEN Throw(FtrlParams)
  ELSE IF ~to_size_t_ok(b.nbins) \/ ~to_size_t_ok(b.nepochs)
    THEN Throw(FtrlParams)
  ELSE IF /\ check_positive(b.alpha)
          /\ check_not_negative(b.beta)
          /\ check_not_negative(b.lambda1)
          /\ check_not_negative(b.lambda2)
          /\ check_not_negative(b.nbins)
    THEN Return(b)
  ELSE Throw(FtrlParams)

\* the branch of __init__ taken when `params` is not given
init_from_individual(ind) ==
  LET d == FtrlParams
      pick(o, dflt) == IF IsNone(o) THEN dflt ELSE Val(o)
      p == [alpha |-> pick(ind.alpha, d.alpha),
            beta |-> pick(ind.beta, d.beta),
            lambda1 |-> pick(ind.lambda1, d.lambda1),
            lambda2 |-> pick(ind.lambda2, d.lambda2),
            nbins |-> pick(ind.nbins, d.nbins),
            nepochs |-> pick(ind.nepochs, d.nepochs),
            interactions |-> pick(ind.interactions, d.interactions),
            double_precision |-> pick(ind.double_precision, d.double_precision)]
  IN
  IF /\ IsNone(ind.alpha) \/ check_positive(p.alpha)
     /\ IsNone(ind.beta) \/ check_not_negative(p.beta)
     /\ IsNone(ind.lambda1) \/ check_not_negative(p.lambda1)
     /\ IsNone(ind.lambda2) \/ check_not_negative(p.lambda2)
     /\ IsNone(ind.nbins) \/ (to_size_t_ok(p.nbins) /\ check_positive(p.nbins))
     /\ IsNone(ind.nepochs) \/ to_size_t_ok(p.nepochs)
    THEN Return(p)
  ELSE Throw(d)

m__init__(s, py_params, py_labels, ind) ==
  LET s0 == [s EXCEPT !.dtft = "nullptr"]
      rp == IF IsNone(py_params) THEN init_from_individual(ind)
            ELSE init_from_params(Val(py_params), ind)
  IN
  IF ~rp.ok THEN Throw(s0)
  ELSE
    LET rl == set_labels(s0, IF IsNone(py_labels) THEN <<>> ELSE Val(py_labels))
    IN
    IF ~rl.ok THEN rl
    ELSE
      LET kind == IF rp.st.double_precision THEN "double" ELSE "float" IN
      Return([NewFtrl(rl.st, kind, rp.st) EXCEPT !.reg_type = "NONE"])

\* ------------------------------------------------------------ data frames
\* an argument that should be a Frame: missing, None, or a frame of a shape
Undefined == [kind |-> "undefined", nrows |-> 0, ncols |-> 0]
PyNone == [kind |-> "None", nrows |-> 0, ncols |-> 0]
Frame(nrows, ncols) == [kind |-> "Frame", nrows |-> nrows, ncols |-> ncols]
Frames == {Frame(r, c) : r \in 0..MaxFrameRows, c \in 0..MaxFrameCols}
FrameArgs == {Undefined, PyNone} \cup Frames

\* ----------------------------------------------------------- weight tables
STypeOf(kind) == IF kind = "double" THEN "FLOAT64" ELSE "FLOAT32"
OtherSType(st) == IF st = "FLOAT64" THEN "FLOAT32" ELSE "FLOAT64"

\* a column of one floating type holding the same value in every row
Column(st, nrows, v) == [stype |-> st, vals |-> [r \in 1..nrows |-> v]]
\* has the column a negative entry
HasNeg(col) == \E r \in DOMAIN col.vals : col.vals[r] < 0

\* A table of `ncols` columns of type st and `nrows` rows of 1s; column `neg`
\* (when not 0) holds -1 instead, column `odd` (when not 0) has the other type.
Table(nrows, ncols, st, neg, odd) ==
  [nrows |-> nrows,
   cols |-> [i \in 1..ncols |->
               Column(IF i = odd THEN OtherSType(st) ELSE st, nrows,
                      IF i = neg THEN -1 ELSE 1)]]

\* where a table handed to set_model may deviate: no column, a negative value
\* in the first z column or in an n column, the other type in the first or
\* in the last column
Flaws(ncols) ==
  {<<0, 0>>} \cup {<<k, 0>> : k \in {1} \cup {j \in 1..ncols : j % 2 = 0}}
             \cup {<<0, k>> : k \in {1, ncols}}

ModelTables ==
  {Table(0, 0, "FLOAT64", 0, 0)} \cup
  UNION {{Table(r, c, st, f[1], f[2]) : f \in Flaws(c)} :
           r \in 1..MaxBins, c \in 1..MaxModelCols,
           st \in {"FLOAT32", "FLOAT64"}}

\* ------------------------------------------------------------------ fit()
\* dtft->dispatch_fit(X, y): allocates one (z, n) pair of nbins rows per
\* label, records the number of training columns and one importance per
\* training column.  The trained values are abstracted: z = -1, n = 1,
\* importance = 1.
dispatch_fit(s, X, y) ==
  LET st == STypeOf(s.dtft)
      nb == s.params.nbins
  IN
  [s EXCEPT
     !.model_trained = TRUE,
     !.dt_model = Some([nrows |-> nb,
                        cols |-> [i \in 1..(2 * Len(s.labels)) |->
                                    Column(st, nb, IF i % 2 = 1 THEN -1 ELSE 1)]]),
     !.dt_fi = Some([c \in 1..X.ncols |-> 1]),
     !.nfeatures = X.ncols]

\* fit without the check for an empty training frame
fit_no_rows_check(s, X, y) ==
  IF X.kind = "undefined" THEN Throw(s)
  ELSE IF y.kind = "undefined" THEN Throw(s)
  ELSE IF X.kind = "None" \/ y.kind = "None" THEN Return(s)
  ELSE IF X.ncols = 0 THEN Throw(s)
  ELSE IF y.ncols # 1 THEN Throw(s)
  ELSE IF X.nrows # y.nrows THEN Throw(s)
  ELSE Return(dispatch_fit(s, X, y))

fit(s, X, y) ==
  IF X.kind = "undefined" THEN Throw(s)
  ELSE IF y.kind = "undefined" THEN Throw(s)
  ELSE IF X.kind = "None" \/ y.kind = "None" THEN Return(s)
  ELSE IF X.ncols = 0 THEN Throw(s)
  ELSE IF X.nrows = 0 THEN Throw(s)
  ELSE IF y.ncols # 1 THEN Throw(s)
  ELSE IF X.nrows # y.nrows THEN Throw(s)
  ELSE Return(dispatch_fit(s, X, y))

\* -------------------------------------------------------------- predict()
\* predict without the comparison of column counts
predict_any_columns(s, X) ==
  IF X.kind = "undefined" THEN Throw(s)
  ELSE IF X.kind = "None" THEN Return(s)
  ELSE IF ~s.model_trained THEN Throw(s)
  ELSE Return(s)

\* predict without the is_trained() check
predict_unchecked(s, X) ==
  IF X.kind = "undefined" THEN Throw(s)
  ELSE IF X.kind = "None" THEN Return(s)
  ELSE IF X.ncols # s.nfeatures /\ s.nfeatures # 0 THEN Throw(s)
  ELSE Return(s)

predict(s, X) ==
  IF X.kind = "undefined" THEN Throw(s)
  ELSE IF X.kind = "None" THEN Return(s)
  ELSE IF ~s.model_trained THEN Throw(s)
  ELSE IF X.ncols # s.nfeatures /\ s.nfeatures # 0 THEN Throw(s)
  ELSE Return(s)

\* ---------------------------------------------------------------- reset()
\* reset that only resets the engine
reset_engine_only(s) == Return(dtft_reset(s))

reset(s) == Return(dtft_reset([s EXCEPT !.reg_type = "NONE"]))

\* ----------------------------------------------------------------- .model
get_model(s) == IF s.model_trained THEN s.dt_model ELSE None

\* dtft->set_model(dt_model): the engine takes a copy of the table and is
\* trained from then on, with no training columns on record (the case
\* predict() lets through with `ncols != 0`)
dtft_set_model(s, t) ==
  [s EXCEPT !.dt_model = Some(t), !.model_trained = TRUE, !.nfeatures = 0]

\* py::Validator::has_negatives<T>(col), T chosen from double_precision: the
\* possible answers.  Read at the column's own width it is the sign test;
\* read at the other width the bytes are reinterpreted and either answer
\* can come back.
has_negatives(double_precision, col) ==
  IF col.stype = (IF double_precision THEN "FLOAT64" ELSE "FLOAT32")
    THEN {HasNeg(col)}
  ELSE BOOLEAN

\* the column type that set_model requires
set_model_stype(double_precision) ==
  IF double_precision THEN "FLOAT32" ELSE "FLOAT64"

\* the loop of set_model over the columns, from column i (0-based) on: the
\* set of possible outcomes
RECURSIVE set_model_loop(_, _, _)
set_model_loop(s, t, i) ==
  IF i >= Len(t.cols) THEN {Return(s)}
  ELSE
    LET col == t.cols[i + 1]
        dp == s.params.double_precision
    IN
    IF col.stype # set_model_stype(dp) THEN {Throw(s)}
    ELSE
      LET neg == IF i % 2 = 1 THEN has_negatives(dp, col) ELSE {FALSE} IN
      (IF TRUE \in neg THEN {Throw(s)} ELSE {}) \cup
      (IF FALSE \in neg THEN set_model_loop(dtft_set_model(s, t), t, i + 1)
       ELSE {})

\* model: None or Some(table); the set of possible outcomes
set_model(s, model) ==
  IF IsNone(model) THEN {Return(dtft_reset([s EXCEPT !.reg_type = "NONE"]))}
  ELSE
    LET t == Val(model) IN
    IF t.nrows # s.params.nbins \/ Len(t.cols) % 2 # 0 THEN {Throw(s)}
    ELSE set_model_loop(s, t, 0)

\* ------------------------------------------------- hyperparameter setters
set_alpha(s, py_alpha) ==
  IF ~check_positive(py_alpha) THEN Throw(s)
  ELSE Return([s EXCEPT !.params.alpha = py_alpha])

set_beta(s, py_beta) ==
  IF ~check_not_negative(py_beta) THEN Throw(s)
  ELSE Return([s EXCEPT !.params.beta = py_beta])

set_lambda1(s, py_lambda1) ==
  IF ~check_not_negative(py_lambda1) THEN Throw(s)
  ELSE Return([s EXCEPT !.params.lambda1 = py_lambda1])

set_lambda2(s, py_lambda2) ==
  IF ~check_not_negative(py_lambda2) THEN Throw(s)
  ELSE Return([s EXCEPT !.params.lambda2 = py_lambda2])

\* set_nbins without the is_trained() check
set_nbins_unguarded(s, py_nbins) ==
  IF ~to_size_t_ok(py_nbins) THEN Throw(s)
  ELSE IF ~check_positive(py_nbins) THEN Throw(s)
  ELSE Return([s EXCEPT !.params.nbins = py_nbins])

set_nbins(s, py_nbins) ==
  IF s.model_trained THEN Throw(s)
  ELSE IF ~to_size_t_ok(py_nbins) THEN Throw(s)
  ELSE IF ~check_positive(py_nbins) THEN Throw(s)
  ELSE Return([s EXCEPT !.params.nbins = py_nbins])

set_nepochs(s, py_nepochs) ==
  IF ~to_size_t_ok(py_nepochs) THEN Throw(s)
  ELSE Return([s EXCEPT !.params.nepochs = py_nepochs])

set_interactions(s, py_interactions) ==
  Return([s EXCEPT !.params.interactions = py_interactions])

\* calls dtft->set_interactions
set_double_precision(s, py_double_precision) ==
  Return([s EXCEPT !.params.interactions = py_double_precision])

\* ---------------------------------------------------------------- .params
get_params_namedtuple(s) == s.params

set_params_namedtuple(s, b) ==
  LET r1 == set_alpha(s, b.alpha)
      r2 == Then(r1, LAMBDA x : set_beta(x, b.beta))
      r3 == Then(r2, LAMBDA x : set_lambda1(x, b.lambda1))
      r4 == Then(r3, LAMBDA x : set_lambda2(x, b.lambda2))
      r5 == Then(r4, LAMBDA x : set_nbins(x, b.nbins))
      r6 == Then(r5, LAMBDA x : set_nepochs(x, b.nepochs))
      r7 == Then(r6, LAMBDA x : set_interactions(x, b.interactions))
  IN Then(r7, LAMBDA x : set_double_precision(x, b.double_precision))

get_params_tuple(s) ==
  <<s.params.alpha, s.params.beta, s.params.lambda1, s.params.lambda2,
    s.params.nbins, s.params.nepochs, s.params.interactions>>

set_params_tuple(s, t) ==
  IF Len(t) # 8 THEN Throw(s)
  ELSE
    LET r1 == set_alpha(s, t[1])
        r2 == Then(r1, LAMBDA x : set_beta(x, t[2]))
        r3 == Then(r2, LAMBDA x : set_lambda1(x, t[3]))
        r4 == Then(r3, LAMBDA x : set_lambda2(x, t[4]))
        r5 == Then(r4, LAMBDA x : set_nbins(x, t[5]))
        r6 == Then(r5, LAMBDA x : set_nepochs(x, t[6]))
        r7 == Then(r6, LAMBDA x : set_interactions(x, t[7]))
    IN Then(r7, LAMBDA x : set_double_precision(x, t[8]))

\* ------------------------------------------------------------- pickling
\* static_cast between RegType and int32
RegTypeToInt(rt) ==
  CASE rt = "NONE" -> 0 [] rt = "BINOMIAL" -> 1 [] rt = "MULTINOMIAL" -> 2
IntToRegType(i) ==
  CASE i = 0 -> "NONE" [] i = 1 -> "BINOMIAL" [] i = 2 -> "MULTINOMIAL"

\* the importances as pickled: None, or a 1-tuple holding the frame
get_fi_tuple(s) ==
  IF s.model_trained THEN [kind |-> "tuple", fi |-> s.dt_fi]
  ELSE [kind |-> "None", fi |-> None]

m__getstate__(s) ==
  [params |-> get_params_tuple(s), model |-> get_model(s),
   fi |-> get_fi_tuple(s), reg_type |-> RegTypeToInt(s.reg_type)]

m__dealloc__(s) ==
  [s EXCEPT !.labels = <<>>, !.dtft = "nullptr", !.params = FtrlParams,
            !.model_trained = FALSE, !.dt_model = None, !.dt_fi = None,
            !.nfeatures = 0]

\* (pickle[0])[7].to_bool_strict(): the element when the tuple has one, and
\* otherwise a read past the tuple's end, which can give either flag or
\* something that is no bool at all ("throw")
read_double_precision(t) ==
  IF Len(t) >= 8 THEN {IF t[8] THEN "True" ELSE "False"}
  ELSE {"True", "False", "throw"}

\* the part of __setstate__ after the engine was allocated
setstate_fill(s, pickle) ==
  LET rp == set_params_tuple(s, pickle.params) IN
  IF ~rp.ok THEN {rp}
  ELSE
    {IF ~rm.ok THEN rm
     ELSE
       LET s3 == IF pickle.fi.kind = "Frame"
                   THEN [rm.st EXCEPT !.dt_fi = pickle.fi.fi]
                 ELSE rm.st
       IN Return([s3 EXCEPT !.reg_type = IntToRegType(pickle.reg_type)])
     : rm \in set_model(rp.st, pickle.model)}

\* the set of possible outcomes
m__setstate__(s, pickle) ==
  LET s1 == m__dealloc__(s) IN
  UNION {IF dp = "throw" THEN {Throw(s1)}
         ELSE setstate_fill(
                NewFtrl(s1, IF dp = "True" THEN "double" ELSE "float", FtrlParams),
                pickle)
         : dp \in read_double_precision(pickle.params)}

\* ------------------------------------------------------------------ Init
Init ==
  /\ dtft = "nullptr"
  /\ labels = <<>>
  /\ reg_type = "NONE"
  /\ params = FtrlParams
  /\ model_trained = FALSE
  /\ dt_model = None
  /\ dt_fi = None
  /\ nfeatures = 0
  /\ last = Idle

Construct ==
  /\ last = Idle
  /\ dtft = "nullptr"
  /\ \E py_labels \in Opt(LabelInputs) :
       \/ \E ind \in Individuals :
            Commit("__init__", m__init__(Self, None, py_labels, ind))
       \/ \E b \in Bundles :
            Commit("__init__", m__init__(Self, Some(b), py_labels, NoIndividual))

\* the object holds an engine
Constructed == dtft # "nullptr"
\* a method of the object can be called
Callable == last = Idle /\ Constructed

Fit ==
  /\ Callable
  /\ \E X \in FrameArgs, y \in FrameArgs : Commit("fit", fit(Self, X, y))

Predict ==
  /\ Callable
  /\ \E X \in FrameArgs : Commit("predict", predict(Self, X))

Reset ==
  /\ Callable
  /\ Commit("reset", reset(Self))

SetLabels ==
  /\ Callable
  /\ \E l \in LabelInputs : Commit("set_labels", set_labels(Self, l))

SetModel ==
  /\ Callable
  /\ \E m \in Opt(ModelTables) : \E r \in set_model(Self, m) :
       Commit("set_model", r)

\* model = get_model(): the table the object itself exports
SetModelOwn ==
  /\ Callable
  /\ \E r \in set_model(Self, get_model(Self)) : Commit("set_model", r)

SetAlpha ==
  /\ Callable
  /\ \E v \in RealInputs : Commit("set_alpha", set_alpha(Self, v))

SetBeta ==
  /\ Callable
  /\ \E v \in RealInputs : Commit("set_beta", set_beta(Self, v))

SetLambda1 ==
  /\ Callable
  /\ \E v \in LambdaInputs : Commit("set_lambda1", set_lambda1(Self, v))

SetLambda2 ==
  /\ Callable
  /\ \E v \in LambdaInputs : Commit("set_lambda2", set_lambda2(Self, v))

SetNbins ==
  /\ Callable
  /\ \E v \in NbinsInputs : Commit("set_nbins", set_nbins(Self, v))

SetNepochs ==
  /\ Callable
  /\ \E v \in NepochsInputs : Commit("set_nepochs", set_nepochs(Self, v))

SetInteractions ==
  /\ Callable
  /\ \E v \in BOOLEAN : Commit("set_interactions", set_interactions(Self, v))

\* the bundles assigned to .params: the object's own bundle with alpha
\* replaced and at most one more field replaced
PatchedBundles(p) ==
  {[p EXCEPT !.alpha = a] : a \in RealInputs} \cup
  {[p EXCEPT !.alpha = a, !.beta = v] : a \in RealInputs, v \in RealInputs} \cup
  {[p EXCEPT !.alpha = a, !.lambda1 = v] : a \in RealInputs, v \in LambdaInputs} \cup
  {[p EXCEPT !.alpha = a, !.lambda2 = v] : a \in RealInputs, v \in LambdaInputs} \cup
  {[p EXCEPT !.alpha = a, !.nbins = v] : a \in RealInputs, v \in NbinsInputs} \cup
  {[p EXCEPT !.alpha = a, !.nepochs = v] : a \in RealInputs, v \in NepochsInputs} \cup
  {[p EXCEPT !.alpha = a, !.interactions = v] : a \in RealInputs, v \in BOOLEAN} \cup
  {[p EXCEPT !.alpha = a, !.double_precision = v] : a \in RealInputs, v \in BOOLEAN}

SetParams ==
  /\ Callable
  /\ \E b \in PatchedBundles(get_params_namedtuple(Self)) :
       Commit("set_params", set_params_namedtuple(Self, b))

\* The records handed to __setstate__: the one __getstate__ returns; and
\* records laid out the way __setstate__ reads them, derived from it: with
\* a double_precision flag as eighth parameter, the importances as the
\* 1-tuple or as the bare frame, and any regression type.
Pickles(s) ==
  LET g == m__getstate__(s)
      fis == {g.fi} \cup
             (IF g.fi.kind = "tuple" /\ ~IsNone(g.fi.fi)
                THEN {[kind |-> "Frame", fi |-> g.fi.fi]} ELSE {})
  IN
  {g} \cup
  {[g EXCEPT !.params = Append(g.params, d), !.fi = f, !.reg_type = rt] :
     d \in BOOLEAN, f \in fis, rt \in 0..2}

SetState ==
  /\ Callable
  /\ \E pickle \in Pickles(Self) : \E r \in m__setstate__(Self, pickle) :
       Commit("__setstate__", r)

\* the caller takes the outcome of the call; the object is left as it is
Returned ==
  /\ last # Idle
  /\ last' = Idle
  /\ UNCHANGED <<dtft, labels, reg_type, params, model_trained, dt_model,
                 dt_fi, nfeatures>>

Next ==
  \/ Returned
  \/ Construct
  \/ Fit
  \/ Predict
  \/ Reset
  \/ SetLabels
  \/ SetModel
  \/ SetModelOwn
  \/ SetAlpha
  \/ SetBeta
  \/ SetLambda1
  \/ SetLambda2
  \/ SetNbins
  \/ SetNepochs
  \/ SetInteractions
  \/ SetParams
  \/ SetState

Spec == Init /\ [][Next]_vars

\* ================================================================ claims

\* the table type that goes with a precision
STypeOfPrecision(double_precision) ==
  IF double_precision THEN "FLOAT64" ELSE "FLOAT32"

EmptyTable == Table(0, 0, "FLOAT64", 0, 0)

\* a step in which set_model is handed the model m
SetModelStep(m) == \E r \in set_model(Self, m) : Commit("set_model", r)

\* ----------------------------------------------------------------- C1
\* a step that restores the record the object itself exports (__setstate__
\* first empties the object it is called on, as a fresh one would be)
RoundTripStep ==
  \E r \in m__setstate__(Self, m__getstate__(Self)) : Commit("__setstate__", r)

\* C1: restoring the record export_state produced succeeds and gives back
\* the 8 hyperparameters, the weight table, the feature importances and the
\* RegType tag of the exporting model.
C1_RoundTrip ==
  [][(last'.op = "__setstate__" /\ RoundTripStep) =>
       /\ last'.ok
       /\ params' = params
       /\ get_model(Self)' = get_model(Self)
       /\ dt_fi' = dt_fi
       /\ reg_type' = reg_type]_vars

\* ----------------------------------------------------------------- C2
FitInputInvalid(X, y) ==
  X.ncols = 0 \/ X.nrows = 0 \/ y.ncols # 1 \/ X.nrows # y.nrows

\* C2: fit on an X with no columns or no rows, a y without exactly one
\* column, or row counts that differ throws and leaves the whole object as
\* it was; the engine trains exactly when all four checks pass.
C2_FitAllOrNothing ==
  [][last'.op = "fit" =>
       \A X \in Frames, y \in Frames :
         Commit("fit", fit(Self, X, y)) =>
           IF FitInputInvalid(X, y)
             THEN ~last'.ok /\ Self' = Self
           ELSE last'.ok /\ Self' = dispatch_fit(Self, X, y)]_vars

\* a fit that threw on a trained object, which is still trained on the
\* columns of the earlier fit
C2_Witness ==
  /\ last = [op |-> "fit", ok |-> FALSE]
  /\ model_trained /\ nfeatures = 1 /\ ~IsNone(dt_model)

\* ----------------------------------------------------------------- C3
\* C3: predict on a frame throws and changes nothing whenever the object is
\* untrained, and returns only when it is trained; reset() and
\* set_model(None) lead to the untrained state.
C3_PredictUntrained ==
  [][/\ last'.op = "predict" =>
          \A X \in Frames :
            Commit("predict", predict(Self, X)) =>
              /\ Self' = Self
              /\ ~model_trained => ~last'.ok
              /\ last'.ok => model_trained
     /\ last'.op = "reset" => ~model_trained'
     /\ (last'.op = "set_model" /\ SetModelStep(None)) => ~model_trained']_vars

\* predict threw on an object that holds no model
C3_Witness ==
  /\ last = [op |-> "predict", ok |-> FALSE]
  /\ ~model_trained /\ IsNone(dt_model)

\* ----------------------------------------------------------------- C4
AllColumnsOf(t, st) == \A i \in 1..Len(t.cols) : t.cols[i].stype = st

\* C4: set_model accepts a table only if every column has the floating
\* type of the configured precision, and accepts the table get_model
\* exports.
C4_ModelDtype ==
  [][last'.op = "set_model" =>
       /\ \A t \in ModelTables :
            (last'.ok /\ SetModelStep(Some(t))) =>
              AllColumnsOf(t, STypeOfPrecision(params.double_precision))
       /\ (/\ model_trained
           /\ dtft = (IF params.double_precision THEN "double" ELSE "float")
           /\ SetModelStep(get_model(Self))) => last'.ok]_vars

\* ----------------------------------------------------------------- C5
\* C5: a set_model call that throws leaves the installed weights and the
\* trained status as they were.
C5_ValidateBeforeInstall ==
  [][(last'.op = "set_model" /\ ~last'.ok) =>
       (dt_model' = dt_model /\ model_trained' = model_trained)]_vars

\* ----------------------------------------------------------------- C6
\* has the table a negative value in an n column (the second of a pair)
NegativeN(t) ==
  \E i \in 1..Len(t.cols) : i % 2 = 0 /\ HasNeg(t.cols[i])

\* C6: set_model throws for every table with an odd number of columns, a
\* row count other than nbins, or a negative value in an n column.
C6_ModelRejected ==
  [][(last'.op = "set_model" /\ last'.ok) =>
       \A t \in ModelTables :
         (/\ \/ Len(t.cols) % 2 = 1
             \/ t.nrows # params.nbins
             \/ NegativeN(t)
          /\ SetModelStep(Some(t))) => ~last'.ok]_vars

\* ----------------------------------------------------------------- C7
\* C7: a constructed object always holds alpha > 0, beta >= 0,
\* lambda1 >= 0, lambda2 >= 0 and nbins > 0.
C7_ValidHyperparameters ==
  Constructed =>
    /\ params.alpha > 0
    /\ params.beta >= 0
    /\ params.lambda1 >= 0
    /\ params.lambda2 >= 0
    /\ params.nbins > 0

\* ----------------------------------------------------------------- C8
\* C8: set_nbins on a trained object throws and changes nothing; nbins does
\* not change across any step that leaves the object trained (the records
\* restored are the object's own); on an untrained object, as reset() and
\* set_model(None) leave it, set_nbins of a positive value takes effect.
C8_NbinsFrozen ==
  [][/\ last'.op = "set_nbins" =>
          \A v \in NbinsInputs :
            Commit("set_nbins", set_nbins(Self, v)) =>
              /\ model_trained => (~last'.ok /\ Self' = Self)
              /\ (~model_trained /\ v > 0) => (last'.ok /\ params'.nbins = v)
     /\ (model_trained /\ model_trained') => params'.nbins = params.nbins
     /\ (last'.op = "reset" \/ (last'.op = "set_model" /\ SetModelStep(None)))
          => ~model_trained']_vars

\* set_nbins threw on a trained object
C8_Witness ==
  /\ last = [op |-> "set_nbins", ok |-> FALSE]
  /\ model_trained /\ params.nbins = 1

\* ----------------------------------------------------------------- C9
\* the hyperparameters and labels of s, untrained and with no RegType
Cleared(s) ==
  [s EXCEPT !.reg_type = "NONE", !.model_trained = FALSE, !.dt_model = None,
            !.dt_fi = None, !.nfeatures = 0]

\* C9 as stated: reset(), set_model(None) and set_model(empty table) all
\* return, leaving the object untrained with RegType None and the
\* hyperparameters and labels it had.
C9_ResetEquivalents ==
  [][(\/ last'.op = "reset"
      \/ (last'.op = "set_model" /\ SetModelStep(None))
      \/ (last'.op = "set_model" /\ SetModelStep(Some(EmptyTable))))
       => (last'.ok /\ Self' = Cleared(Self))]_vars

\* C9 as amended: reset() and set_model(None) do that; set_model of an
\* empty table leaves the object as it was, throwing unless nbins is 0.
C9_ResetAmended ==
  [][/\ (last'.op = "reset" \/ (last'.op = "set_model" /\ SetModelStep(None)))
          => (last'.ok /\ Self' = Cleared(Self))
     /\ (last'.op = "set_model" /\ SetModelStep(Some(EmptyTable)))
          => (Self' = Self /\ (last'.ok <=> params.nbins = 0))]_vars

\* reset() returned on an object that still has its non-default
\* hyperparameters and labels
C9_Witness ==
  /\ last = [op |-> "reset", ok |-> TRUE]
  /\ ~model_trained /\ reg_type = "NONE" /\ IsNone(dt_model)
  /\ params.alpha = 1 /\ params.nbins = 1 /\ params.interactions
  /\ labels = <<"a", "b">>

\* ---------------------------------------------------------------- C10
\* constructing without labels gives the labels set_labels([]) stores
C10_InitLabels ==
  (dtft = "nullptr" /\ last = Idle) =>
    \A ind \in Individuals :
      LET r == m__init__(Self, None, None, ind) IN
      r.ok => r.st.labels = <<"target">>

\* C10: set_labels([]) stores the single label "target"; a list of one
\* label throws and keeps the stored list; a longer list is stored as
\* given; construction without labels stores "target".
C10_SetLabels ==
  /\ []C10_InitLabels
  /\ [][last'.op = "set_labels" =>
          \A l \in LabelInputs :
            Commit("set_labels", set_labels(Self, l)) =>
              CASE Len(l) = 0 -> last'.ok /\ labels' = <<"target">>
                [] Len(l) = 1 -> ~last'.ok /\ labels' = labels
                [] OTHER -> last'.ok /\ labels' = l]_vars

\* set_labels threw on a one-label list and the two labels set before are
\* still there
C10_Witness ==
  /\ last = [op |-> "set_labels", ok |-> FALSE]
  /\ labels = <<"a", "b">>

C12_RegTypeLifecycle ==
  [][/\ (last'.op = "__init__" /\ last'.ok) => reg_type' = "NONE"
     /\ last'.op = "reset" => reg_type' = "NONE"
     /\ (last'.op = "set_model" /\ SetModelStep(None)) => reg_type' = "NONE"
     /\ last'.op = "fit" =>
          \A X \in Frames, y \in Frames :
            (Commit("fit", fit(Self, X, y)) /\ last'.ok) =>
              /\ reg_type' \in {"BINOMIAL", "MULTINOMIAL"}
              /\ m__getstate__(Self)'.reg_type # RegTypeToInt("NONE")]_vars

\* ---------------------------------------------------------------- C13
\* C13: assigning a params bundle that returns leaves interactions equal to
\* the bundle's interactions field, whatever its double_precision field;
\* assigning interactions leaves double_precision as it was; and a restore
\* from an 8-element parameter tuple that returns leaves interactions equal
\* to element 6 of the tuple, whatever element 7.
C13_IndependentFlags ==
  [][/\ last'.op = "set_params" =>
          \A b \in PatchedBundles(get_params_namedtuple(Self)) :
            (Commit("set_params", set_params_namedtuple(Self, b)) /\ last'.ok)
              => params'.interactions = b.interactions
     /\ last'.op = "set_interactions" =>
          params'.double_precision = params.double_precision
     /\ last'.op = "__setstate__" =>
          \A pickle \in Pickles(Self) :
            (/\ Len(pickle.params) = 8
             /\ last'.ok
             /\ \E r \in m__setstate__(Self, pickle) : Commit("__setstate__", r))
              => params'.interactions = pickle.params[7]]_vars

\* ---------------------------------------------------------------- C14
\* the calls that assign hyperparameters
SetterOps ==
  {"set_alpha", "set_beta", "set_lambda1", "set_lambda2", "set_nbins",
   "set_nepochs", "set_interactions", "set_params"}

\* C14: while the object is trained, no setter call, of a single
\* hyperparameter or of the params bundle, changes any hyperparameter.
C14_FrozenWhileTrained ==
  [][(model_trained /\ last'.op \in SetterOps) => params' = params]_vars

\* ---------------------------------------------------------------- C15
\* C15: whenever the object holds a weight table, no n column of it (the
\* second of each pair) has a negative entry.
C15_NonNegativeN ==
  ~IsNone(dt_model) => ~NegativeN(Val(dt_model))

\* ---------------------------------------------------------------- C16
\* C16: an assignment of the params bundle that throws, for an invalid
\* field or for nbins on a trained object, leaves every hyperparameter as
\* it was.
C16_ParamsAtomic ==
  [][(last'.op = "set_params" /\ ~last'.ok) => params' = params]_vars

\* ---------------------------------------------------------------- C17
\* C17: a constructed object always holds at least one label, and a restore
\* of the record the object exported leaves it with the labels it had.
C17_LabelsKept ==
  /\ [](Constructed => Len(labels) >= 1)
  /\ [][(last'.op = "__setstate__" /\ RoundTripStep) => labels' = labels]_vars
====
